---- MODULE Spec2Model ----
(***************************************************************************)
(* A model of the pda-directory uploader: the dedup merge engine           *)
(* (src/uploader/src/merge.rs), the remote import client                   *)
(* (src/uploader/src/cloudflare.rs) and the blue/green run that sequences  *)
(* them (the run's driver is not among the source files; it is modelled    *)
(* from section 4.6 of the specification).                                 *)
(***************************************************************************)
EXTENDS Integers, Sequences, FiniteSets, TLC

(***************************************************************************)
(* Bounds of the model.                                                    *)
(***************************************************************************)
\* longest record list one source file holds
MaxRecs == 2
\* runs of the driver in one behaviour
MaxRuns == 2

\* 32-byte addresses, ordered as the integers are
Address == 1 .. 3
ProgramId == 1 .. 2
\* the source directory holds these entries
FileId == 1 .. 2

(***************************************************************************)
(* types.rs: the record.  Seeds are carried but never inspected by merge.  *)
(***************************************************************************)
PdaSqlite(pda, program_id) ==
    [pda |-> pda, seeds |-> <<>>, program_id |-> program_id]

RECURSIVE SeqsUpTo(_, _)
\* every sequence over S of length at most n
SeqsUpTo(S, n) ==
    IF n = 0 THEN {<<>>}
    ELSE LET shorter == SeqsUpTo(S, n - 1)
         IN  shorter \cup {Append(s, x) : s \in shorter, x \in S}

Range(s) == {s[i] : i \in 1 .. Len(s)}

\* the addresses of a record list
AddrsOf(es) == {es[i].pda : i \in 1 .. Len(es)}

(***************************************************************************)
(* Files.  A source file is a directory entry with a name (of which only   *)
(* the kind matters: pda_collector_*.blob, *.sqlite, anything else), a     *)
(* modification time (young: modified within the last 5 seconds) and a     *)
(* content: a record list (valid), or bytes no parser accepts.             *)
(***************************************************************************)

\* the checkpoint file's bytes: bincode of a HashSet<Address> is the entry
\* count followed by the entries; the model keeps one word per field.
NoFile == [exists |-> FALSE, bytes |-> <<>>, readable |-> TRUE]
FileOf(bytes) == [exists |-> TRUE, bytes |-> bytes, readable |-> TRUE]
\* a file that exists and that the process may not open
Unreadable(bytes) == [exists |-> TRUE, bytes |-> bytes, readable |-> FALSE]

RECURSIVE SetToSeq(_)
\* the entries of a set in ascending order
SetToSeq(S) ==
    IF S = {} THEN <<>>
    ELSE LET m == CHOOSE x \in S : \A y \in S : x <= y
         IN  <<m>> \o SetToSeq(S \ {m})

\* bincode::serialize_into(&mut writer, &dedup_hashset)
Serialize(S) == <<Cardinality(S)>> \o SetToSeq(S)

\* bincode::deserialize_from: fails when the count or an entry is cut short
DecodeOk(bytes) == Len(bytes) >= 1 /\ Len(bytes) - 1 >= bytes[1]
Deserialize(bytes) == {bytes[i + 1] : i \in 1 .. bytes[1]}

\* the addresses physically held by a file, decodable or not
AddrsIn(file) ==
    IF file.exists /\ Len(file.bytes) >= 1
    THEN {file.bytes[i] : i \in 2 .. Len(file.bytes)}
    ELSE {}

VARIABLES
    dir,            \* the source directory: FileId -> file
    ckptFile,       \* the file at dedup_hashset_path
    tmpFile,        \* the file at dedup_hashset_path.with_extension("tmp")
    mpc,            \* merge: "idle", "call", "blob", "sqlite", "dedup", "ok", "err"
    dedup_hashset,  \* merge: the set loaded from the checkpoint
    blob_files,     \* merge: eligible blob files
    sqlite_files,   \* merge: sqlite files
    tpc,            \* parse task of each file
    parsed,         \* parse task: its parsed records
    lock,           \* holder of the accumulator's write lock, 0 when free
    entries,        \* the shared accumulator
    processed,      \* AtomicUsize processed
    mres            \* what merge returned and logged

mergeVars == <<mpc, dedup_hashset, blob_files, sqlite_files, tpc, parsed, lock,
               entries, processed, mres>>
diskVars == <<dir, ckptFile, tmpFile>>

VARIABLES
    db,             \* remote: the addresses each database holds
    voc,            \* remote: the import statuses it answers with
    budget,         \* remote: how often it will still answer "not finished"
    upc,            \* upload_to_d1: "idle", "call", "staging", "ingest",
                    \*   "poll", "ok", "err"
    udb,            \* upload_to_d1: database_identifier
    uentries,       \* upload_to_d1: entries
    status,         \* poll_import_until_complete: status
    attempts,       \* poll_import_until_complete: attempts
    reqs,           \* requests sent by this upload, by kind
    trace,          \* what this upload received and sent last
    uerr            \* the error upload_to_d1 returned

uploadVars == <<upc, udb, uentries, status, attempts, reqs, trace, uerr>>
remoteVars == <<db, voc, budget>>

VARIABLES
    spc,            \* save_dedup_hashset: "idle", "create", "write", "rename",
                    \*   "remove", "retry", "ok", "err"
    saveSet,        \* save_dedup_hashset: dedup_hashset
    kv,             \* the pointer store: the value of ACTIVE_DB
    configured,     \* whether the blue and green database ids are given
    rpc,            \* the run: "idle", "merge", "inactive", "flip",
                    \*   "secondary", "persist", "done", "failed", "crashed"
    runs,           \* runs started so far
    active,         \* the run: the label read from the pointer store
    ci,             \* the run: the chunk being uploaded
    ev,             \* history of the current run
    prev            \* history of the run before

saveVars == <<spc, saveSet>>
runVars == <<kv, configured, rpc, runs, active, ci, ev, prev>>

VARIABLES
    cpc,            \* the merge command of main.rs: "idle", "call", "parse",
                    \*   "write", "remove", "ok", "err", "panic"
    files,          \* the merge command: files
    ftask,          \* the merge command: the closure run for each file
    rw_entries,     \* the merge command: rw_entries
    num_files_dealt, \* the merge command: num_files_dealt
    output,         \* the merge command: the rows of the output database
    removed         \* the merge command: source files removed so far

cliVars == <<cpc, files, ftask, rw_entries, num_files_dealt, output, removed>>

VARIABLES
    dpc,            \* decode_seeds_from_storage: "idle", "call", "loop",
                    \*   "done", "panic"
    seeds_raw,      \* decode_seeds_from_storage: seeds_raw
    cursor,         \* decode_seeds_from_storage: cursor
    seeds,          \* decode_seeds_from_storage: seeds
    num_seeds,      \* decode_seeds_from_storage: num_seeds
    iter,           \* decode_seeds_from_storage: passes of the loop begun
    original        \* the seed list seeds_raw was encoded from, if any

seedVars == <<dpc, seeds_raw, cursor, seeds, num_seeds, iter, original>>

VARIABLES
    bpc,            \* the head of upload_to_d1: "idle", "call", "once", "twice"
    sentries,       \* the head of upload_to_d1: entries
    built,          \* the scripts built from sentries so far
    sums            \* the checksums taken of them

scriptVars == <<bpc, sentries, built, sums>>

vars == <<dir, ckptFile, tmpFile, mpc, dedup_hashset, blob_files, sqlite_files,
          tpc, parsed, lock, entries, processed, mres, db, voc, budget, upc,
          udb, uentries, status, attempts, reqs, trace, uerr, spc, saveSet,
          kv, configured, rpc, runs, active, ci, ev, prev, cpc, files,
          ftask, rw_entries, num_files_dealt, output, removed, dpc,
          seeds_raw, cursor, seeds, num_seeds, iter, original, bpc,
          sentries, built, sums>>

\* what the steps of merge leave alone
mergeFrame == <<uploadVars, remoteVars, saveVars, runVars, cliVars, seedVars,
                scriptVars>>
\* what the steps of upload_to_d1 leave alone
uploadFrame == <<diskVars, mergeVars, saveVars, runVars, cliVars, seedVars,
                 scriptVars>>

(***************************************************************************)
(* merge.rs: the pure steps of merge.                                      *)
(***************************************************************************)
\* a merge that starts from the empty set whatever the file holds
LoadDedupHashset_fresh(file) == {}

\* a merge that keeps the entries it could read of a file cut short
LoadDedupHashset_salvaged(file) ==
    IF file.exists /\ Len(file.bytes) >= 1
    THEN {file.bytes[i] : i \in 2 .. Len(file.bytes)}
    ELSE {}

\* lines 27-40: a missing file and an undecodable file both give the empty set
LoadDedupHashset(file) ==
    IF file.exists
    THEN IF DecodeOk(file.bytes) THEN Deserialize(file.bytes) ELSE {}
    ELSE {}

\* lines 181-218: name pda_collector_*.blob and age > 5 s
collect_blob_files(d) ==
    SelectSeq(SetToSeq(DOMAIN d), LAMBDA f : d[f].kind = "blob" /\ ~d[f].young)

\* lines 220-238: extension sqlite, no age filter
collect_sqlite_files(d) ==
    SelectSeq(SetToSeq(DOMAIN d), LAMBDA f : d[f].kind = "sqlite")

RECURSIVE InsertByKey(_, _)
\* e placed after every entry whose key is not greater (a stable insertion)
InsertByKey(sorted, e) ==
    IF sorted = <<>> THEN <<e>>
    ELSE IF Head(sorted).pda <= e.pda
         THEN <<Head(sorted)>> \o InsertByKey(Tail(sorted), e)
         ELSE <<e>> \o sorted

\* a merge that does not sort before it collapses neighbours
SortByKey_unsorted(es) == es

RECURSIVE SortByKey(_)
\* line 88: entries.sort_by_key(|entry| entry.pda), a stable sort
SortByKey(es) ==
    IF es = <<>> THEN <<>>
    ELSE InsertByKey(SortByKey(SubSeq(es, 1, Len(es) - 1)), es[Len(es)])

RECURSIVE DedupByKey(_)
\* line 91: entries.dedup_by_key(|entry| entry.pda) keeps the first entry of
\* every run of consecutive entries with the same key
DedupByKey(es) ==
    IF Len(es) <= 1 THEN es
    ELSE LET rest == DedupByKey(Tail(es))
         IN  IF Head(es).pda = Head(rest).pda
             THEN <<Head(es)>> \o Tail(rest)
             ELSE <<Head(es)>> \o rest

\* a retain whose test is inverted
Retain_inverted(es, hashset) == SelectSeq(es, LAMBDA e : e.pda \in hashset)

\* line 95: entries.retain(|entry| !dedup_hashset.contains(&entry.pda))
Retain(es, hashset) == SelectSeq(es, LAMBDA e : e.pda \notin hashset)

\* saturating_sub of two usize
SaturatingSub(a, b) == IF a >= b THEN a - b ELSE 0


(***************************************************************************)
(* merge.rs: merge, one action per step.                                   *)
(***************************************************************************)
NoResult ==
    [entries |-> <<>>, blob_files |-> <<>>, dedup_hashset |-> {},
     initial_count |-> 0, vec_deduped |-> 0, hashset_deduped |-> 0,
     failed |-> 0, error |-> "none"]

\* line 32: File::open(&dedup_hashset_path)
OpenOk(file) == file.readable

TasksFor(paths) ==
    [f \in FileId |-> IF f \in Range(paths) THEN "ready" ELSE "none"]

\* lines 21-54: load the checkpoint (an existing file that cannot be opened
\* is the error merge returns), scan the directory, set up the accumulator
MergeBegin ==
    /\ mpc = "call"
    /\ IF ckptFile.exists /\ ~OpenOk(ckptFile)
       THEN /\ mpc' = "err"
            /\ mres' = [NoResult EXCEPT !.error = "checkpoint"]
            /\ UNCHANGED <<dedup_hashset, blob_files, sqlite_files, entries,
                           processed, lock, parsed, tpc>>
       ELSE /\ dedup_hashset' = LoadDedupHashset(ckptFile)
            /\ blob_files' = collect_blob_files(dir)
            /\ sqlite_files' = collect_sqlite_files(dir)
            /\ entries' = <<>>
            /\ processed' = 0
            /\ lock' = 0
            /\ parsed' = [f \in FileId |-> <<>>]
            /\ IF Len(collect_blob_files(dir)) + Len(collect_sqlite_files(dir)) > 0
               THEN /\ mpc' = "blob"
                    /\ tpc' = TasksFor(collect_blob_files(dir))
               ELSE /\ mpc' = "dedup"
                    /\ tpc' = [f \in FileId |-> "none"]
            /\ UNCHANGED mres
    /\ UNCHANGED <<mergeFrame, diskVars>>

\* from_blob (lines 240-253) and from_sqlite (lines 255-334): the records of
\* the file, or an error
ParseOk(file) == file.valid

\* lines 160-161: the task parses its file, holding no lock
TaskParse(f) ==
    /\ mpc \in {"blob", "sqlite"}
    /\ tpc[f] = "ready"
    /\ IF ParseOk(dir[f])
       THEN /\ parsed' = [parsed EXCEPT ![f] = dir[f].content]
            /\ tpc' = [tpc EXCEPT ![f] = "parsed"]
       ELSE /\ tpc' = [tpc EXCEPT ![f] = "failed"]
            /\ UNCHANGED parsed
    /\ UNCHANGED <<mergeFrame, diskVars, mpc, dedup_hashset, blob_files, sqlite_files, lock,
                   entries, processed, mres>>

\* lines 164-166: entries.write()
TaskLock(f) ==
    /\ tpc[f] = "parsed"
    /\ lock = 0
    /\ lock' = f
    /\ tpc' = [tpc EXCEPT ![f] = "locked"]
    /\ UNCHANGED <<mergeFrame, diskVars, mpc, dedup_hashset, blob_files, sqlite_files,
                   parsed, entries, processed, mres>>

\* an append that replaces what the accumulator held
Extend_overwrite(acc, recs) == recs

\* line 167: guard.extend(parsed)
Extend(acc, recs) == acc \o recs

\* lines 167-169: guard.extend(parsed); guard.len(); the guard is dropped
TaskExtend(f) ==
    /\ tpc[f] = "locked"
    /\ lock = f
    /\ entries' = Extend(entries, parsed[f])
    /\ lock' = 0
    /\ tpc' = [tpc EXCEPT ![f] = "extended"]
    /\ UNCHANGED <<mergeFrame, diskVars, mpc, dedup_hashset, blob_files, sqlite_files,
                   parsed, processed, mres>>

\* lines 171-177: processed_count.fetch_add(1), Ok(())
TaskFinish(f) ==
    /\ tpc[f] = "extended"
    /\ processed' = processed + 1
    /\ tpc' = [tpc EXCEPT ![f] = "done"]
    /\ UNCHANGED <<mergeFrame, diskVars, mpc, dedup_hashset, blob_files, sqlite_files,
                   parsed, lock, entries, mres>>

\* rayon's try_for_each: once a task has failed, tasks not yet started may be
\* dropped
TaskSkip(f) ==
    /\ tpc[f] = "ready"
    /\ \E g \in FileId : tpc[g] = "failed"
    /\ tpc' = [tpc EXCEPT ![f] = "skipped"]
    /\ UNCHANGED <<mergeFrame, diskVars, mpc, dedup_hashset, blob_files, sqlite_files,
                   parsed, lock, entries, processed, mres>>

Settled == \A f \in FileId : tpc[f] \in {"none", "done", "failed", "skipped"}

\* lines 58-74: process_paths returned Ok for the phase
PhaseOk ==
    /\ mpc \in {"blob", "sqlite"}
    /\ \A f \in FileId : tpc[f] \in {"none", "done"}
    /\ IF mpc = "blob"
       THEN /\ mpc' = "sqlite"
            /\ tpc' = TasksFor(sqlite_files)
       ELSE /\ mpc' = "dedup"
            /\ tpc' = [f \in FileId |-> "none"]
    /\ UNCHANGED <<mergeFrame, diskVars, dedup_hashset, blob_files, sqlite_files, parsed,
                   lock, entries, processed, mres>>

\* lines 58-74: process_paths returned the error of a failed task, and merge
\* returns it (the ? operator)
PhaseErr ==
    /\ mpc \in {"blob", "sqlite"}
    /\ Settled
    /\ \E f \in FileId :
          /\ tpc[f] = "failed"
          /\ mres' = [NoResult EXCEPT !.failed = f, !.error = "parse"]
    /\ mpc' = "err"
    /\ UNCHANGED <<mergeFrame, diskVars, dedup_hashset, blob_files, sqlite_files, tpc,
                   parsed, lock, entries, processed>>

\* lines 79-108: sort, collapse, drop what the checkpoint holds, return
MergeResult(es, blobs, hashset) ==
    LET after_vec == DedupByKey(SortByKey(es))
        after_hashset == Retain(after_vec, hashset)
    IN  [entries |-> after_hashset,
         blob_files |-> blobs,
         dedup_hashset |-> hashset,
         initial_count |-> Len(es),
         vec_deduped |-> SaturatingSub(Len(es), Len(after_vec)),
         hashset_deduped |-> SaturatingSub(Len(after_vec), Len(after_hashset)),
         failed |-> 0, error |-> "none"]

\* a merge that persists the extended set itself, before any upload
CheckpointAfterMerge_saved(file, res) ==
    FileOf(Serialize(res.dedup_hashset \cup AddrsOf(res.entries)))

\* lines 103-108: merge hands the loaded set back for the caller to extend
\* after the uploads; it writes nothing to dedup_hashset_path
CheckpointAfterMerge(file, res) == file

MergeDedup ==
    /\ mpc = "dedup"
    /\ mres' = MergeResult(entries, blob_files, dedup_hashset)
    /\ ckptFile' = CheckpointAfterMerge(
                       ckptFile, MergeResult(entries, blob_files, dedup_hashset))
    /\ mpc' = "ok"
    /\ UNCHANGED <<mergeFrame, dir, tmpFile, dedup_hashset, blob_files,
                   sqlite_files, tpc, parsed, lock, entries, processed>>

\* time passes: a blob file leaves the 5-second quiescence window.  Only the
\* directory scan of MergeBegin reads a file's age, so the step is taken
\* before a merge or between two runs.
FileAges(f) ==
    /\ mpc \in {"idle", "call"}
    /\ rpc \notin {"merge", "inactive", "secondary", "persist"}
    /\ dir[f].young
    /\ dir' = [dir EXCEPT ![f].young = FALSE]
    /\ UNCHANGED <<ckptFile, tmpFile, mergeVars, mergeFrame>>

MergeStep ==
    \/ MergeBegin
    \/ \E f \in FileId : TaskParse(f)
    \/ \E f \in FileId : TaskLock(f)
    \/ \E f \in FileId : TaskExtend(f)
    \/ \E f \in FileId : TaskFinish(f)
    \/ \E f \in FileId : TaskSkip(f)
    \/ PhaseOk
    \/ PhaseErr
    \/ MergeDedup

(***************************************************************************)
(* cloudflare.rs: values.                                                  *)
(***************************************************************************)
Color == {"blue", "green"}

\* Option<T>
None == <<>>
Some(x) == <<x>>

\* line 210
MAX_ATTEMPTS == 300
\* line 306
CHUNK_SIZE == 500

\* line 227: the error text of a poll that finds no import under way
Sentinel == "Not currently importing anything."

\* status texts, one character per entry
TextComplete == <<"c", "o", "m", "p", "l", "e", "t", "e">>
TextCompleteCaps == <<"C", "o", "m", "p", "l", "e", "t", "e">>
TextActive == <<"a", "c", "t", "i", "v", "e">>
TextFailed == <<"F", "a", "i", "l", "e", "d">>
TextErrors == <<"e", "r", "r", "o", "r", "s">>
TextFail == <<"f", "a", "i", "l">>
TextError == <<"e", "r", "r", "o", "r">>

UpperChars == <<"A", "B", "C", "D", "E", "F", "G", "H", "I", "J", "K", "L", "M",
                "N", "O", "P", "Q", "R", "S", "T", "U", "V", "W", "X", "Y", "Z">>
LowerChars == <<"a", "b", "c", "d", "e", "f", "g", "h", "i", "j", "k", "l", "m",
                "n", "o", "p", "q", "r", "s", "t", "u", "v", "w", "x", "y", "z">>

\* str::to_ascii_lowercase
ToAsciiLowercase(s) ==
    [i \in 1 .. Len(s) |->
        IF \E k \in 1 .. Len(UpperChars) : UpperChars[k] = s[i]
        THEN LowerChars[CHOOSE k \in 1 .. Len(UpperChars) : UpperChars[k] = s[i]]
        ELSE s[i]]

\* str::contains
Contains(s, pat) ==
    \E i \in 1 .. (Len(s) - Len(pat) + 1) : SubSeq(s, i, i + Len(pat) - 1) = pat

\* lines 438-451: ImportStatus (errors and messages only feed the log and the
\* text of the error returned)
ImportStatus(success, error, text, at_bookmark) ==
    [success |-> success, error |-> error, status |-> text,
     at_bookmark |-> at_bookmark]

NoStatus == ImportStatus(FALSE, None, None, None)

Bookmarks == {None, Some("b1")}

ImportStatuses ==
    {ImportStatus(s, None, t, b) :
        s \in BOOLEAN,
        t \in {None, Some(TextComplete), Some(TextCompleteCaps),
               Some(TextActive), Some(TextFailed), Some(TextErrors)},
        b \in Bookmarks}
    \cup {ImportStatus(s, e, None, None) :
        s \in BOOLEAN, e \in {Some(Sentinel), Some("boom")}}
    \cup {ImportStatus(FALSE, Some(Sentinel), Some(TextFailed), Some("b1")),
          ImportStatus(FALSE, Some(Sentinel), Some(TextActive), None)}

\* a loop that looks at the success flag before the error text
Evaluate_flagfirst(st) ==
    IF ~st.success THEN "err"
    ELSE IF st.error # None /\ st.error[1] = Sentinel THEN "ok"
    ELSE IF st.status # None /\ ToAsciiLowercase(st.status[1]) = TextComplete
         THEN "ok"
    ELSE "continue"

\* a loop that takes an import by the remote's word that it goes well
Evaluate_hasty(st) == IF st.success THEN "ok" ELSE "err"

\* lines 226-249: what the polling loop makes of a status: "ok" and "err" end
\* the import, "continue" polls again
Evaluate(st) ==
    IF st.error # None /\ st.error[1] = Sentinel THEN "ok"
    ELSE IF st.status # None /\ ToAsciiLowercase(st.status[1]) = TextComplete
         THEN "ok"
    ELSE IF st.status # None
            /\ (\/ Contains(ToAsciiLowercase(st.status[1]), TextFail)
                \/ Contains(ToAsciiLowercase(st.status[1]), TextError))
         THEN "err"
    ELSE IF ~st.success THEN "err"
    ELSE "continue"

\* a poll request that carries no bookmark
PollBookmark_none(st) == None

\* a poll request that carries the bookmark the poll before it carried
PollBookmark_stale(st) == trace.pollBm

\* line 258: the bookmark a poll request carries
PollBookmark(st) == st.at_bookmark

\* lines 340-353, to_blob_literal: X'..' around the bytes in upper-case hex
ToBlobLiteral(bytes) == [blob |-> bytes]

RECURSIVE Flatten(_)
Flatten(ss) == IF ss = <<>> THEN <<>> ELSE Head(ss) \o Flatten(Tail(ss))

\* bincode::serialize(&entry.seeds): the count, then each seed's length and
\* bytes
BincodeSeeds(ss) ==
    <<Len(ss)>>
    \o Flatten([i \in 1 .. Len(ss) |-> <<Len(ss[i])>> \o ss[i]])

\* a row that carries the number of scripts built before it
Row_stamped(entry, last) ==
    [pda |-> ToBlobLiteral(entry.pda),
     program |-> ToBlobLiteral(entry.program_id),
     seed_count |-> Len(entry.seeds) + Len(built),
     seed |-> ToBlobLiteral(BincodeSeeds(entry.seeds)),
     end |-> IF last THEN ";" ELSE ","]

\* lines 314-333: one row of a statement, ended by "," or ";"
Row(entry, last) ==
    [pda |-> ToBlobLiteral(entry.pda),
     program |-> ToBlobLiteral(entry.program_id),
     seed_count |-> Len(entry.seeds),
     seed |-> ToBlobLiteral(BincodeSeeds(entry.seeds)),
     end |-> IF last THEN ";" ELSE ","]

\* a script of one statement whatever the number of entries
Chunks_whole(es, n) == <<es>>

\* slice::chunks
Chunks(es, n) ==
    [k \in 1 .. ((Len(es) + n - 1) \div n) |->
        SubSeq(es, (k - 1) * n + 1, IF k * n < Len(es) THEN k * n ELSE Len(es))]

\* lines 301-338, build_insert_script: None for no entries, else one INSERT
\* OR IGNORE statement (its rows) per chunk of CHUNK_SIZE entries
BuildInsertScript(es) ==
    IF es = <<>> THEN None
    ELSE Some([k \in 1 .. Len(Chunks(es, CHUNK_SIZE)) |->
                 LET chunk == Chunks(es, CHUNK_SIZE)[k]
                 IN  [i \in 1 .. Len(chunk) |-> Row(chunk[i], i = Len(chunk))]])

\* line 95: the hex MD5 of the script, a string of one token here; equal
\* scripts, and only they, have equal digests
Checksum(script) == <<[ch |-> "md5", of |-> script]>>

QuoteChar == [ch |-> "quote", of |-> <<>>]

RECURSIVE TrimStart(_)
TrimStart(s) ==
    IF s # <<>> /\ Head(s) = QuoteChar THEN TrimStart(Tail(s)) ELSE s

RECURSIVE TrimEnd(_)
TrimEnd(s) ==
    IF s # <<>> /\ s[Len(s)] = QuoteChar
    THEN TrimEnd(SubSeq(s, 1, Len(s) - 1))
    ELSE s

\* line 152: etag.trim_matches('"')
TrimQuotes(s) == TrimEnd(TrimStart(s))

\* an upload that takes any content tag for the right one
EtagVerified_unchecked(header, checksum) == header # None

\* lines 148-159: the ETag header is there and, its quotes stripped, is the
\* checksum
EtagVerified(header, checksum) ==
    header # None /\ TrimQuotes(header[1]) = checksum

(***************************************************************************)
(* The responses the remote can give.                                      *)
(***************************************************************************)
\* a JSON envelope {success, result, errors}; result is None when absent
Envelope(success, result) ==
    [kind |-> "envelope", success |-> success, result |-> result]
\* a non-success HTTP status
HttpError == [kind |-> "http_error", success |-> FALSE, result |-> None]
\* a body that does not deserialize
BadJson == [kind |-> "bad_json", success |-> FALSE, result |-> None]
\* a non-success HTTP status whose body is a well-formed envelope
HttpErrorWith(result) ==
    [kind |-> "http_error", success |-> TRUE, result |-> result]

StatusComplete == ImportStatus(TRUE, None, Some(TextComplete), None)

\* the result of init: an upload descriptor ("upload"), an import status
\* ("status"), or an object with the fields of both ("both")
InitResult(shape, st) == [shape |-> shape, st |-> st]

InitResponses ==
    {HttpError, BadJson,
     HttpErrorWith(Some(InitResult("upload", NoStatus))),
     HttpErrorWith(Some(InitResult("status", StatusComplete)))}
    \cup {Envelope(s, None) : s \in BOOLEAN}
    \cup {Envelope(s, Some(InitResult("upload", NoStatus))) : s \in BOOLEAN}
    \cup {Envelope(TRUE, Some(InitResult("both", st))) :
             st \in {ImportStatus(TRUE, None, Some(TextActive), None)}}
    \cup {Envelope(s, Some(InitResult("status", st))) :
             s \in BOOLEAN, st \in voc}

StatusResponses ==
    {HttpError, BadJson, HttpErrorWith(Some(StatusComplete))}
    \cup {Envelope(s, None) : s \in BOOLEAN}
    \cup {Envelope(s, Some(st)) : s \in BOOLEAN, st \in voc}

WrongSum == <<[ch |-> "md5", of |-> <<>>]>>

PutResponses(checksum) ==
    {[http_ok |-> FALSE, etag |-> None]}
    \cup {[http_ok |-> TRUE, etag |-> e] :
        e \in {None, Some(checksum), Some(<<QuoteChar>> \o checksum \o <<QuoteChar>>),
               Some(WrongSum), Some(<<QuoteChar>> \o WrongSum \o <<QuoteChar>>)}}

\* a client that reads the body whatever the HTTP status
EnvelopeCheck_anystatus(resp) ==
    IF resp.kind = "bad_json" THEN "json"
    ELSE IF ~resp.success THEN "envelope"
    ELSE IF resp.result = None THEN "payload"
    ELSE "none"

\* a client that takes a payload without looking at the success flag
EnvelopeCheck_payloadonly(resp) ==
    IF resp.kind = "http_error" THEN "http"
    ELSE IF resp.kind = "bad_json" THEN "json"
    ELSE IF resp.result = None THEN "payload"
    ELSE "none"

\* lines 119-130, 172-183, 274-285: error_for_status, json, ensure_success,
\* unpack_response; "none" when the payload is handed on
EnvelopeCheck(resp) ==
    IF resp.kind = "http_error" THEN "http"
    ELSE IF resp.kind = "bad_json" THEN "json"
    ELSE IF ~resp.success THEN "envelope"
    ELSE IF resp.result = None THEN "payload"
    ELSE "none"

\* lines 433-436, the untagged InitResult: the first variant that fits
IsUpload(r) == r.shape \in {"upload", "both"}

(***************************************************************************)
(* The remote, as section 6 of the specification describes it.  It reports *)
(* an import complete (in any letter case), or that nothing is being       *)
(* imported, only when the rows of the script are in the database; the     *)
(* rows are there once it has accepted the ingest request.                 *)
(***************************************************************************)
SaysDone(st) ==
    \/ st.error = Some(Sentinel)
    \/ st.status # None /\ ToAsciiLowercase(st.status[1]) = TextComplete

RemoteMay(st) ==
    /\ SaysDone(st) => AddrsOf(uentries) \subseteq db[udb]
    /\ Evaluate(st) = "continue" => budget > 0

(***************************************************************************)
(* cloudflare.rs: upload_to_d1 and poll_import_until_complete, one action  *)
(* per request.                                                            *)
(***************************************************************************)
NoReqs == [init |-> 0, put |-> 0, ingest |-> 0, poll |-> 0]

\* what the upload has received so far: the shape of the init result and its
\* bookmark, the staging response, the bookmark of the last poll request and
\* the last response (st: the import status it carried)
NoTrace ==
    [initShape |-> "none", initBm |-> None, putSeen |-> FALSE,
     putOk |-> FALSE, etag |-> None, pollBm |-> None, last |-> "none",
     kind |-> "none", success |-> FALSE, present |-> FALSE, st |-> None]

\* the import status in the body of a response
PayloadStatus(request, resp) ==
    IF resp.result = None THEN None
    ELSE IF request # "init" THEN resp.result
    ELSE IF resp.result[1].shape = "status" THEN Some(resp.result[1].st)
    ELSE None

Received(tr, request, resp) ==
    [tr EXCEPT !.last = request, !.kind = resp.kind, !.success = resp.success,
               !.present = (resp.result # None),
               !.st = PayloadStatus(request, resp)]

UploadIdle ==
    /\ upc = "idle"
    /\ udb = "blue"
    /\ uentries = <<>>
    /\ status = NoStatus
    /\ attempts = 0
    /\ reqs = NoReqs
    /\ trace = NoTrace
    /\ uerr = "none"

\* lines 214-249: the polling loop looks at a status it was given
Enter(st) ==
    /\ RemoteMay(st)
    /\ status' = st
    /\ budget' = IF Evaluate(st) = "continue" THEN budget - 1 ELSE budget
    /\ upc' = IF Evaluate(st) = "continue" THEN "poll" ELSE Evaluate(st)
    /\ uerr' = IF Evaluate(st) = "err" THEN "import" ELSE "none"

\* an upload that asks the remote whatever the batch holds
NothingToUpload_never(es) == FALSE

\* lines 80-91: entries.is_empty(), and build_insert_script returning None
NothingToUpload(es) == es = <<>> \/ BuildInsertScript(es) = None

\* lines 80-138 and 185-201: nothing to do for an empty batch; else the init
\* request and what its response leads to
UploadInit ==
    /\ upc = "call"
    /\ IF NothingToUpload(uentries)
       THEN /\ upc' = "ok"
            /\ UNCHANGED <<status, reqs, trace, uerr, remoteVars>>
       ELSE \E resp \in InitResponses :
               /\ reqs' = [reqs EXCEPT !.init = @ + 1]
               /\ IF EnvelopeCheck(resp) # "none"
                  THEN /\ upc' = "err"
                       /\ uerr' = EnvelopeCheck(resp)
                       /\ trace' = Received(trace, "init", resp)
                       /\ UNCHANGED <<status, remoteVars>>
                  ELSE IF IsUpload(resp.result[1])
                  THEN /\ upc' = "staging"
                       /\ trace' = [Received(trace, "init", resp) EXCEPT
                                       !.initShape = resp.result[1].shape]
                       /\ UNCHANGED <<status, uerr, remoteVars>>
                  ELSE /\ Enter(resp.result[1].st)
                       /\ trace' = [Received(trace, "init", resp) EXCEPT
                                       !.initShape = resp.result[1].shape,
                                       !.initBm = resp.result[1].st.at_bookmark]
                       /\ UNCHANGED <<db, voc>>
    /\ UNCHANGED <<udb, uentries, attempts, uploadFrame>>

\* lines 139-161: the staging PUT and the check of its ETag
UploadStaging ==
    /\ upc = "staging"
    /\ \E r \in PutResponses(Checksum(BuildInsertScript(uentries)[1])) :
          /\ reqs' = [reqs EXCEPT !.put = @ + 1]
          /\ trace' = [trace EXCEPT !.putSeen = TRUE, !.putOk = r.http_ok,
                                    !.etag = r.etag, !.last = "put"]
          /\ IF ~r.http_ok
             THEN upc' = "err" /\ uerr' = "http"
             ELSE IF EtagVerified(r.etag, Checksum(BuildInsertScript(uentries)[1]))
             THEN upc' = "ingest" /\ UNCHANGED uerr
             ELSE /\ upc' = "err"
                  /\ uerr' = IF r.etag = None THEN "etag_missing"
                             ELSE "etag_mismatch"
    /\ UNCHANGED <<udb, uentries, status, attempts, remoteVars, uploadFrame>>

\* lines 163-183 and 193-201: the ingest request; the remote that accepts it
\* starts the import
UploadIngest ==
    /\ upc = "ingest"
    /\ \E resp \in StatusResponses :
          /\ reqs' = [reqs EXCEPT !.ingest = @ + 1]
          /\ trace' = Received(trace, "ingest", resp)
          /\ IF EnvelopeCheck(resp) # "none"
             THEN /\ upc' = "err"
                  /\ uerr' = EnvelopeCheck(resp)
                  /\ UNCHANGED <<status, remoteVars>>
             ELSE /\ Enter(resp.result[1])
                  /\ db' = [db EXCEPT ![udb] = @ \cup AddrsOf(uentries)]
                  /\ UNCHANGED voc
    /\ UNCHANGED <<udb, uentries, attempts, uploadFrame>>

\* a loop without a cap
CapReached_never(n) == FALSE

\* line 252: attempts >= MAX_ATTEMPTS
CapReached(n) == n >= MAX_ATTEMPTS

\* lines 251-286, then 214-249 on the status received: one more attempt, the
\* timeout when the cap is reached, else the poll request with the bookmark
\* of the status in hand
PollStep ==
    /\ upc = "poll"
    /\ attempts' = attempts + 1
    /\ IF CapReached(attempts + 1)
       THEN /\ upc' = "err"
            /\ uerr' = "timeout"
            /\ UNCHANGED <<status, reqs, trace, remoteVars>>
       ELSE \E resp \in StatusResponses :
               /\ reqs' = [reqs EXCEPT !.poll = @ + 1]
               /\ trace' = [Received(trace, "poll", resp) EXCEPT
                               !.pollBm = PollBookmark(status)]
               /\ IF EnvelopeCheck(resp) # "none"
                  THEN /\ upc' = "err"
                       /\ uerr' = EnvelopeCheck(resp)
                       /\ UNCHANGED <<status, remoteVars>>
                  ELSE /\ Enter(resp.result[1])
                       /\ UNCHANGED <<db, voc>>
    /\ UNCHANGED <<udb, uentries, uploadFrame>>

UploadStep ==
    \/ UploadInit
    \/ UploadStaging
    \/ UploadIngest
    \/ PollStep

(***************************************************************************)
(* merge.rs: save_dedup_hashset, one action per file-system call.  Each    *)
(* call can fail; rename onto an existing destination replaces it or, on a *)
(* file system that refuses to, fails with AlreadyExists.                  *)
(***************************************************************************)
SaveIdle ==
    /\ spc = "idle"
    /\ saveSet = {}

saveFrame == <<dir, mergeVars, uploadVars, remoteVars, runVars, cliVars,
               seedVars, scriptVars>>

\* lines 120-121: File::create(&temp_path)
SaveCreate ==
    /\ spc = "create"
    /\ \E ok \in BOOLEAN :
          IF ok
          THEN tmpFile' = FileOf(<<>>) /\ spc' = "write"
          ELSE spc' = "err" /\ UNCHANGED tmpFile
    /\ UNCHANGED <<ckptFile, saveSet, saveFrame>>

\* lines 122-124: serialize_into, flush, sync_all
SaveWrite ==
    /\ spc = "write"
    /\ \E ok \in BOOLEAN :
          IF ok
          THEN tmpFile' = FileOf(Serialize(saveSet)) /\ spc' = "rename"
          ELSE spc' = "err" /\ UNCHANGED tmpFile
    /\ UNCHANGED <<ckptFile, saveSet, saveFrame>>

\* lines 126-143: rename(&temp_path, dedup_hashset_path) and its three arms
SaveRename ==
    /\ spc = "rename"
    /\ \E outcome \in {"ok", "already_exists", "other"} :
          /\ outcome = "already_exists" => ckptFile.exists
          /\ IF outcome = "ok"
             THEN /\ ckptFile' = tmpFile
                  /\ tmpFile' = NoFile
                  /\ spc' = "ok"
             ELSE IF outcome = "already_exists"
             THEN /\ spc' = "remove"
                  /\ UNCHANGED <<ckptFile, tmpFile>>
             ELSE /\ tmpFile' = NoFile
                  /\ spc' = "err"
                  /\ UNCHANGED ckptFile
    /\ UNCHANGED <<saveSet, saveFrame>>

\* line 132: remove_file(dedup_hashset_path)
SaveRemove ==
    /\ spc = "remove"
    /\ \E ok \in BOOLEAN :
          IF ok
          THEN ckptFile' = NoFile /\ spc' = "retry"
          ELSE spc' = "err" /\ UNCHANGED ckptFile
    /\ UNCHANGED <<tmpFile, saveSet, saveFrame>>

\* line 133: rename(&temp_path, dedup_hashset_path) once more
SaveRetry ==
    /\ spc = "retry"
    /\ \E ok \in BOOLEAN :
          IF ok
          THEN /\ ckptFile' = tmpFile
               /\ tmpFile' = NoFile
               /\ spc' = "ok"
          ELSE /\ spc' = "err"
               /\ UNCHANGED <<ckptFile, tmpFile>>
    /\ UNCHANGED <<saveSet, saveFrame>>

SaveStep ==
    \/ SaveCreate
    \/ SaveWrite
    \/ SaveRename
    \/ SaveRemove
    \/ SaveRetry

(***************************************************************************)
(* cloudflare.rs: the pointer store.                                       *)
(***************************************************************************)
\* a pointer write that leaves the stored label as it was
PutKv_lost(ok, store, value) == store

\* lines 35-51, get_kv: the stored value, or the error of the request
GetKv(ok, store) == IF ok THEN Some(store) ELSE None

\* lines 53-72, put_kv: the store holds the value once the request succeeded
PutKv(ok, store, value) == IF ok THEN value ELSE store

(***************************************************************************)
(* The run (section 4.6 of the specification): merge, upload the batch to  *)
(* the inactive database chunk by chunk, flip the pointer, upload the      *)
(* batch to the secondary database, persist the checkpoint.  A run can be  *)
(* terminated between any two steps; memory is lost, the disk, the pointer *)
(* store and the databases stay.                                           *)
(***************************************************************************)
\* records per chunk of a run (1000 in the specification)
ChunkRecords == 2
\* non-final answers the remote gives to one import of a run
RemotePatience == 1

Other(color) == IF color = "blue" THEN "green" ELSE "blue"

NoEv ==
    [start |-> NoFile, kv0 |-> "none", chunks |-> -1, batch |-> {},
     files |-> {}, inactiveOk |-> 0, inactiveFailed |-> FALSE, flips |-> 0,
     secondaryBegun |-> 0, secondaryOk |-> 0, saveBegun |-> FALSE]

NoPrev == [done |-> FALSE, files |-> {}]

RunIdle ==
    /\ rpc = "idle"
    /\ runs = 0
    /\ active = "none"
    /\ ci = 0
    /\ ev = NoEv
    /\ prev = NoPrev

Running == {"merge", "inactive", "secondary", "persist"}

\* the process is gone: nothing of merge, upload or save is left in memory
ResetMemory ==
    /\ mpc' = "idle"
    /\ dedup_hashset' = {}
    /\ blob_files' = <<>>
    /\ sqlite_files' = <<>>
    /\ tpc' = [f \in FileId |-> "none"]
    /\ parsed' = [f \in FileId |-> <<>>]
    /\ lock' = 0
    /\ entries' = <<>>
    /\ processed' = 0
    /\ mres' = NoResult
    /\ upc' = "idle"
    /\ udb' = "blue"
    /\ uentries' = <<>>
    /\ status' = NoStatus
    /\ attempts' = 0
    /\ reqs' = NoReqs
    /\ trace' = NoTrace
    /\ uerr' = "none"
    /\ budget' = 0
    /\ spc' = "idle"
    /\ saveSet' = {}
    /\ active' = "none"
    /\ ci' = 0

\* the run ends with an error
Fail(e) ==
    /\ rpc' = "failed"
    /\ ev' = e
    /\ ResetMemory
    /\ UNCHANGED <<cliVars, seedVars, scriptVars, diskVars, db, voc, kv, configured, runs, prev>>

\* the command is started: it calls merge
RunStart ==
    /\ rpc \in {"idle", "done", "failed", "crashed"}
    /\ runs < MaxRuns
    /\ rpc' = "merge"
    /\ runs' = runs + 1
    /\ mpc' = "call"
    /\ ev' = [NoEv EXCEPT !.start = ckptFile, !.kv0 = kv]
    /\ prev' = IF rpc = "done" THEN [done |-> TRUE, files |-> ev.files]
               ELSE NoPrev
    /\ UNCHANGED <<cliVars, seedVars, scriptVars, diskVars, dedup_hashset, blob_files, sqlite_files, tpc,
                   parsed, lock, entries, processed, mres, uploadVars,
                   remoteVars, saveVars, kv, configured, active, ci>>

\* step 5, and the dry run: save_dedup_hashset is called with the loaded set
\* extended by the addresses of the batch
BeginPersist(e) ==
    /\ rpc' = "persist"
    /\ spc' = "create"
    /\ saveSet' = mres.dedup_hashset \cup AddrsOf(mres.entries)
    /\ ev' = [e EXCEPT !.saveBegun = TRUE]
    /\ UNCHANGED <<cliVars, seedVars, scriptVars, diskVars, mergeVars, uploadVars, remoteVars, kv,
                   configured, runs, active, ci, prev>>

\* merge returned the batch: without database ids the run goes on to persist;
\* else it reads the pointer, and a label other than blue and green is fatal
RunMerged ==
    /\ rpc = "merge"
    /\ mpc = "ok"
    /\ LET e == [ev EXCEPT !.batch = AddrsOf(mres.entries),
                           !.files = Range(blob_files) \cup Range(sqlite_files)]
       IN  IF ~configured
           THEN BeginPersist(e)
           ELSE \E ok \in BOOLEAN :
                   IF GetKv(ok, kv) = None \/ GetKv(ok, kv)[1] \notin Color
                   THEN Fail(e)
                   ELSE /\ rpc' = "inactive"
                        /\ active' = GetKv(ok, kv)[1]
                        /\ ci' = 1
                        /\ ev' = [e EXCEPT !.chunks =
                                     Len(Chunks(mres.entries, ChunkRecords))]
                        /\ UNCHANGED <<cliVars, seedVars, scriptVars, diskVars, mergeVars, uploadVars,
                                       remoteVars, saveVars, kv, configured,
                                       runs, prev>>

\* merge returned an error
RunMergeErr ==
    /\ rpc = "merge"
    /\ mpc = "err"
    /\ Fail(ev)

\* steps 2 and 4: upload_to_d1 is called for the next chunk
RunCallUpload ==
    /\ rpc \in {"inactive", "secondary"}
    /\ upc = "idle"
    /\ ci <= ev.chunks
    /\ upc' = "call"
    /\ udb' = IF rpc = "inactive" THEN Other(active) ELSE active
    /\ uentries' = Chunks(mres.entries, ChunkRecords)[ci]
    /\ budget' = RemotePatience
    /\ ev' = IF rpc = "secondary"
             THEN [ev EXCEPT !.secondaryBegun = @ + 1]
             ELSE ev
    /\ UNCHANGED <<cliVars, seedVars, scriptVars, diskVars, mergeVars, status, attempts, reqs, trace, uerr,
                   db, voc, saveVars, kv, configured, rpc, runs, active, ci,
                   prev>>

\* upload_to_d1 returned Ok: on to the next chunk
RunUploadOk ==
    /\ rpc \in {"inactive", "secondary"}
    /\ upc = "ok"
    /\ upc' = "idle"
    /\ udb' = "blue"
    /\ uentries' = <<>>
    /\ status' = NoStatus
    /\ attempts' = 0
    /\ reqs' = NoReqs
    /\ trace' = NoTrace
    /\ uerr' = "none"
    /\ budget' = 0
    /\ ci' = ci + 1
    /\ ev' = IF rpc = "inactive"
             THEN [ev EXCEPT !.inactiveOk = @ + 1]
             ELSE [ev EXCEPT !.secondaryOk = @ + 1]
    /\ UNCHANGED <<cliVars, seedVars, scriptVars, diskVars, mergeVars, db, voc, saveVars, kv, configured,
                   rpc, runs, active, prev>>

\* upload_to_d1 returned an error: the run returns it
RunUploadErr ==
    /\ rpc \in {"inactive", "secondary"}
    /\ upc = "err"
    /\ Fail([ev EXCEPT !.inactiveFailed = (rpc = "inactive")])

\* step 3: every chunk is in the inactive database; the pointer is written
RunFlip ==
    /\ rpc = "inactive"
    /\ upc = "idle"
    /\ ci > ev.chunks
    /\ \E ok \in BOOLEAN :
          IF ok
          THEN /\ kv' = PutKv(ok, kv, Other(active))
               /\ rpc' = "secondary"
               /\ ci' = 1
               /\ ev' = [ev EXCEPT !.flips = @ + 1]
               /\ UNCHANGED <<cliVars, seedVars, scriptVars, diskVars, mergeVars, uploadVars, remoteVars,
                              saveVars, configured, runs, active, prev>>
          ELSE /\ rpc' = "failed"
               /\ kv' = PutKv(ok, kv, Other(active))
               /\ ev' = ev
               /\ ResetMemory
               /\ UNCHANGED <<cliVars, seedVars, scriptVars, diskVars, db, voc, configured, runs, prev>>

\* step 5: every chunk is in the secondary database too
RunPersist ==
    /\ rpc = "secondary"
    /\ upc = "idle"
    /\ ci > ev.chunks
    /\ BeginPersist(ev)

\* save_dedup_hashset returned
RunSaved ==
    /\ rpc = "persist"
    /\ spc \in {"ok", "err"}
    /\ rpc' = IF spc = "ok" THEN "done" ELSE "failed"
    /\ ResetMemory
    /\ UNCHANGED <<cliVars, seedVars, scriptVars, diskVars, db, voc, kv, configured, runs, ev, prev>>

\* the process is terminated
Crash ==
    /\ rpc \in Running
    /\ rpc' = "crashed"
    /\ ResetMemory
    /\ UNCHANGED <<cliVars, seedVars, scriptVars, diskVars, db, voc, kv, configured, runs, ev, prev>>

RunStep ==
    \/ RunStart
    \/ RunMerged
    \/ RunMergeErr
    \/ RunCallUpload
    \/ RunUploadOk
    \/ RunUploadErr
    \/ RunFlip
    \/ RunPersist
    \/ RunSaved

(***************************************************************************)
(* cloudflare.rs: the head of upload_to_d1, which builds the script of a   *)
(* batch and takes its checksum, run twice on the same entries.            *)
(***************************************************************************)
ScriptIdle ==
    /\ bpc = "idle"
    /\ sentries = <<>>
    /\ built = <<>>
    /\ sums = <<>>

\* lines 85-95: build_insert_script(entries), md5_compute(script.as_bytes())
ScriptBuild ==
    /\ bpc \in {"call", "once"}
    /\ built' = Append(built, BuildInsertScript(sentries))
    /\ sums' = Append(sums,
                      IF BuildInsertScript(sentries) = None THEN None
                      ELSE Some(Checksum(BuildInsertScript(sentries)[1])))
    /\ bpc' = IF bpc = "call" THEN "once" ELSE "twice"
    /\ UNCHANGED <<sentries, diskVars, mergeVars, uploadVars, remoteVars,
                   saveVars, runVars, cliVars, seedVars>>

(***************************************************************************)
(* main.rs: the merge command.                                             *)
(***************************************************************************)
\* the entry of a directory whose file has been removed
Gone == [kind |-> "gone", young |-> FALSE, valid |-> FALSE, content |-> <<>>]

\* main.rs lines 287-305: files ending in .blob that are older than 5 seconds
all_valid_files(d) ==
    SelectSeq(SetToSeq(DOMAIN d), LAMBDA f : d[f].kind = "blob" /\ ~d[f].young)

\* main.rs lines 308-312: deserialize_pda_sqlite
DeserializeOk(file) == file.valid

RECURSIVE InsertOrIgnore(_, _)
\* main.rs lines 229-232, 262-264: INSERT OR IGNORE into a table whose
\* primary key is pda: the first row of every pda stays
InsertOrIgnore(table, rows) ==
    IF rows = <<>> THEN table
    ELSE InsertOrIgnore(
             IF \E r \in table : r.pda = Head(rows).pda
             THEN table ELSE table \cup {Head(rows)},
             Tail(rows))

MainIdle ==
    /\ cpc = "idle"
    /\ files = <<>>
    /\ ftask = [f \in FileId |-> "none"]
    /\ rw_entries = <<>>
    /\ num_files_dealt = 0
    /\ output = {}
    /\ removed = 0

\* what the steps of the merge command leave alone
mainFrame == <<ckptFile, tmpFile, mergeVars, uploadVars, remoteVars, saveVars,
               runVars, seedVars, scriptVars>>

\* main.rs lines 92-98
MainBegin ==
    /\ cpc = "call"
    /\ files' = all_valid_files(dir)
    /\ ftask' = TasksFor(all_valid_files(dir))
    /\ rw_entries' = <<>>
    /\ num_files_dealt' = 0
    /\ cpc' = "parse"
    /\ UNCHANGED <<mainFrame, dir, output, removed>>

\* main.rs lines 102-106: deserialize_pda_sqlite(&file), and the panic of the
\* closure when it fails
MainTaskParse(f) ==
    /\ cpc = "parse"
    /\ ftask[f] = "ready"
    /\ ftask' = [ftask EXCEPT ![f] = IF DeserializeOk(dir[f])
                                     THEN "parsed" ELSE "panicked"]
    /\ UNCHANGED <<mainFrame, dir, cpc, files, rw_entries, num_files_dealt,
                   output, removed>>

\* main.rs lines 108-109: rw_entries.write().unwrap().extend(pda_sqlite),
\* num_files_dealt.fetch_add(1)
MainTaskExtend(f) ==
    /\ cpc = "parse"
    /\ ftask[f] = "parsed"
    /\ rw_entries' = rw_entries \o dir[f].content
    /\ num_files_dealt' = num_files_dealt + 1
    /\ ftask' = [ftask EXCEPT ![f] = "done"]
    /\ UNCHANGED <<mainFrame, dir, cpc, files, output, removed>>

\* main.rs line 101: for_each returns when every closure has, or resumes the
\* panic of one of them in the calling thread (closures not yet started may
\* then never run)
MainJoin ==
    /\ cpc = "parse"
    /\ \A f \in FileId : ftask[f] # "parsed"
    /\ IF \E f \in FileId : ftask[f] = "panicked"
       THEN cpc' = "panic"
       ELSE /\ \A f \in FileId : ftask[f] \in {"none", "done"}
            /\ cpc' = "write"
    /\ UNCHANGED <<mainFrame, dir, files, ftask, rw_entries, num_files_dealt,
                   output, removed>>

\* main.rs lines 116-177: the shards and the output database; any of the
\* storage calls may fail, and merge returns that error
MainWrite ==
    /\ cpc = "write"
    /\ \E ok \in BOOLEAN :
          IF ok
          THEN /\ output' = InsertOrIgnore({}, rw_entries)
               /\ cpc' = "remove"
          ELSE /\ cpc' = "err"
               /\ UNCHANGED output
    /\ UNCHANGED <<mainFrame, dir, files, ftask, rw_entries, num_files_dealt,
                   removed>>

\* main.rs lines 180-183: fs::remove_file(file)? for every source file
MainRemove ==
    /\ cpc = "remove"
    /\ removed < Len(files)
    /\ \E ok \in BOOLEAN :
          IF ok
          THEN /\ dir' = [dir EXCEPT ![files[removed + 1]] = Gone]
               /\ removed' = removed + 1
               /\ UNCHANGED cpc
          ELSE /\ cpc' = "err"
               /\ UNCHANGED <<dir, removed>>
    /\ UNCHANGED <<mainFrame, files, ftask, rw_entries, num_files_dealt,
                   output>>

\* main.rs lines 184-185
MainEnd ==
    /\ cpc = "remove"
    /\ removed = Len(files)
    /\ cpc' = "ok"
    /\ UNCHANGED <<mainFrame, dir, files, ftask, rw_entries, num_files_dealt,
                   output, removed>>

MainStep ==
    \/ MainBegin
    \/ \E f \in FileId : MainTaskParse(f)
    \/ \E f \in FileId : MainTaskExtend(f)
    \/ MainJoin
    \/ MainWrite
    \/ MainRemove
    \/ MainEnd

(***************************************************************************)
(* The seeds column: encode_seeds_for_storage of main.rs and               *)
(* decode_seeds_from_storage of merge.rs.  A byte is a number below 256;   *)
(* usize is 64 bits wide, so cursor + 4 and cursor + seed_len, both below  *)
(* 2^33, are computed without wrapping.                                    *)
(***************************************************************************)
\* u32::to_le_bytes
ToLeBytes(n) ==
    <<n % 256, (n \div 256) % 256, (n \div 65536) % 256,
      (n \div 16777216) % 256>>

\* the four bytes at cursor read with the first as the most significant
FromLeBytes_bigendian(raw, at) ==
    16777216 * raw[at + 1] + 65536 * raw[at + 2] + 256 * raw[at + 3]
    + raw[at + 4]

\* u32::from_le_bytes of the four bytes at cursor (cursor counts from 0)
FromLeBytes(raw, at) ==
    raw[at + 1] + 256 * raw[at + 2] + 65536 * raw[at + 3]
    + 16777216 * raw[at + 4]

RECURSIVE EncodeEach(_)
EncodeEach(ss) ==
    IF ss = <<>> THEN <<>>
    ELSE ToLeBytes(Len(Head(ss))) \o Head(ss) \o EncodeEach(Tail(ss))

\* main.rs lines 275-285
encode_seeds_for_storage(ss) == ToLeBytes(Len(ss)) \o EncodeEach(ss)

\* merge.rs line 297: cursor + 4 > seeds_raw.len() ends the loop
LenFieldFits(raw, at) == ~(at + 4 > Len(raw))

\* a decoder that takes the seed's bytes whatever the length field says
SeedFits_unchecked(raw, at, seed_len) == TRUE

\* merge.rs line 309: cursor + seed_len > seeds_raw.len() ends the loop
SeedFits(raw, at, seed_len) == ~(at + seed_len > Len(raw))

SeedsIdle ==
    /\ dpc = "idle"
    /\ seeds_raw = <<>>
    /\ cursor = 0
    /\ seeds = <<>>
    /\ num_seeds = 0
    /\ iter = 0
    /\ original = None

\* what the steps of decode_seeds_from_storage leave alone
seedFrame == <<diskVars, mergeVars, uploadVars, remoteVars, saveVars, runVars,
               cliVars, scriptVars, seeds_raw, original>>

\* merge.rs lines 279-293: the count of seeds
DecodeBegin ==
    /\ dpc = "call"
    /\ IF Len(seeds_raw) < 4
       THEN /\ dpc' = "done"
            /\ UNCHANGED <<cursor, num_seeds>>
       ELSE /\ num_seeds' = FromLeBytes(seeds_raw, 0)
            /\ cursor' = 4
            /\ dpc' = "loop"
    /\ seeds' = <<>>
    /\ iter' = 0
    /\ UNCHANGED seedFrame

\* merge.rs lines 296-316: one pass of the loop; an index or a slice beyond
\* the end of seeds_raw is a panic
DecodeSeed ==
    /\ dpc = "loop"
    /\ iter < num_seeds
    /\ IF ~LenFieldFits(seeds_raw, cursor)
       THEN /\ dpc' = "done"
            /\ UNCHANGED <<cursor, seeds, iter>>
       ELSE IF cursor + 4 > Len(seeds_raw)
       THEN /\ dpc' = "panic"
            /\ UNCHANGED <<cursor, seeds, iter>>
       ELSE LET seed_len == FromLeBytes(seeds_raw, cursor)
                start == cursor + 4
            IN  IF ~SeedFits(seeds_raw, start, seed_len)
                THEN /\ dpc' = "done"
                     /\ cursor' = start
                     /\ UNCHANGED <<seeds, iter>>
                ELSE IF start + seed_len > Len(seeds_raw)
                THEN /\ dpc' = "panic"
                     /\ cursor' = start
                     /\ UNCHANGED <<seeds, iter>>
                ELSE /\ seeds' = Append(seeds, SubSeq(seeds_raw, start + 1,
                                                      start + seed_len))
                     /\ cursor' = start + seed_len
                     /\ iter' = iter + 1
                     /\ UNCHANGED dpc
    /\ UNCHANGED <<seedFrame, num_seeds>>

\* merge.rs line 318: the loop has run num_seeds times
DecodeEnd ==
    /\ dpc = "loop"
    /\ iter = num_seeds
    /\ dpc' = "done"
    /\ UNCHANGED <<seedFrame, cursor, seeds, num_seeds, iter>>

DecodeStep ==
    \/ DecodeBegin
    \/ DecodeSeed
    \/ DecodeEnd

(***************************************************************************)
(* The states a directory and a checkpoint file can be in.                 *)
(***************************************************************************)
RecordLists(program_id) ==
    {[i \in 1 .. Len(s) |-> PdaSqlite(s[i], program_id)] :
        s \in SeqsUpTo(Address, MaxRecs)}

\* a file's records share the program id p (records of different files with
\* one address may differ in it)
Files(p) ==
    {[kind |-> k, young |-> y, valid |-> TRUE, content |-> c] :
        k \in {"blob", "sqlite", "other"}, y \in BOOLEAN,
        c \in RecordLists(p)}
    \cup {[kind |-> k, young |-> y, valid |-> FALSE, content |-> <<>>] :
        k \in {"blob", "sqlite", "other"}, y \in BOOLEAN}

\* the age of a file matters for blobs only, the content of a file for
\* blobs and sqlite files only
SourceFiles(p) ==
    {f \in Files(p) : /\ f.young => f.kind = "blob"
                      /\ f.kind = "other" => f.content = <<>>}

\* a written checkpoint, or one cut short after its first entry
CheckpointFiles ==
    {NoFile}
    \cup {FileOf(Serialize(S)) : S \in {{}, {1, 3}, Address}}
    \cup {FileOf(SubSeq(Serialize({1, 3}), 1, 2))}
    \cup {Unreadable(Serialize({2}))}

\* the program id of the records of file f
ProgramOf(f) == ((f - 1) % Cardinality(ProgramId)) + 1

\* entry 1 is a blob file, the others are of any kind
Directories ==
    {d \in [FileId -> UNION {SourceFiles(p) : p \in ProgramId}] :
        /\ \A f \in FileId : d[f] \in SourceFiles(ProgramOf(f))
        /\ d[1].kind = "blob"}

InitMerge ==
    /\ dir \in Directories
    /\ ckptFile \in CheckpointFiles
    /\ tmpFile = NoFile
    /\ mpc = "call"
    /\ dedup_hashset = {}
    /\ blob_files = <<>>
    /\ sqlite_files = <<>>
    /\ tpc = [f \in FileId |-> "none"]
    /\ parsed = [f \in FileId |-> <<>>]
    /\ lock = 0
    /\ entries = <<>>
    /\ processed = 0
    /\ mres = NoResult
    /\ UploadIdle
    /\ SaveIdle
    /\ RunIdle
    /\ MainIdle
    /\ SeedsIdle
    /\ ScriptIdle
    /\ db = [c \in Color |-> {}]
    /\ voc = {}
    /\ budget = 0
    /\ kv = "blue"
    /\ configured = TRUE

NextMerge ==
    \/ MergeStep
    \/ \E f \in FileId : FileAges(f)

SpecMerge == InitMerge /\ [][NextMerge]_vars

(***************************************************************************)
(* One call of upload_to_d1 against a remote that answers with any of the  *)
(* responses.                                                              *)
(***************************************************************************)
EmptyDir ==
    [f \in FileId |->
        [kind |-> "blob", young |-> FALSE, valid |-> TRUE, content |-> <<>>]]

MergeIdle ==
    /\ mpc = "idle"
    /\ dedup_hashset = {}
    /\ blob_files = <<>>
    /\ sqlite_files = <<>>
    /\ tpc = [f \in FileId |-> "none"]
    /\ parsed = [f \in FileId |-> <<>>]
    /\ lock = 0
    /\ entries = <<>>
    /\ processed = 0
    /\ mres = NoResult

\* non-final answers the remote gives to the one import
UploadPatience == 3

UploadBatches ==
    {<<>>, <<PdaSqlite(1, 1)>>, <<PdaSqlite(1, 1), PdaSqlite(2, 1)>>}

InitUpload ==
    /\ dir = EmptyDir
    /\ ckptFile = NoFile
    /\ tmpFile = NoFile
    /\ MergeIdle
    /\ SaveIdle
    /\ RunIdle
    /\ MainIdle
    /\ SeedsIdle
    /\ ScriptIdle
    /\ kv = "blue"
    /\ configured = TRUE
    /\ upc = "call"
    /\ udb \in Color
    /\ uentries \in UploadBatches
    /\ status = NoStatus
    /\ attempts = 0
    /\ reqs = NoReqs
    /\ trace = NoTrace
    /\ uerr = "none"
    /\ \E held \in BOOLEAN :
          db = [c \in Color |-> IF held THEN AddrsOf(uentries) ELSE {}]
    /\ voc = ImportStatuses
    /\ budget = UploadPatience

NextUpload == UploadStep

SpecUpload == InitUpload /\ [][NextUpload]_vars

(***************************************************************************)
(* One call of upload_to_d1 against a remote that answers "active" for as  *)
(* long as it is asked.                                                    *)
(***************************************************************************)
PollStatuses ==
    {ImportStatus(TRUE, None, Some(TextActive), None), StatusComplete}

InitPoll ==
    /\ dir = EmptyDir
    /\ ckptFile = NoFile
    /\ tmpFile = NoFile
    /\ MergeIdle
    /\ SaveIdle
    /\ RunIdle
    /\ MainIdle
    /\ SeedsIdle
    /\ ScriptIdle
    /\ kv = "blue"
    /\ configured = TRUE
    /\ upc = "call"
    /\ udb = "green"
    /\ uentries = <<PdaSqlite(1, 1)>>
    /\ status = NoStatus
    /\ attempts = 0
    /\ reqs = NoReqs
    /\ trace = NoTrace
    /\ uerr = "none"
    /\ db = [c \in Color |-> {}]
    /\ voc = PollStatuses
    /\ budget = MAX_ATTEMPTS

NextPoll == UploadStep

SpecPoll == InitPoll /\ [][NextPoll]_vars

\* every request is answered: a call that can take a step takes one
SpecPollLive == InitPoll /\ [][NextPoll]_vars /\ WF_vars(NextPoll)

(***************************************************************************)
(* Runs of the command, one after the other, over a directory of two       *)
(* files, with terminations.                                               *)
(***************************************************************************)
RunFile(kind, young, valid, addrs, p) ==
    [kind |-> kind, young |-> young, valid |-> valid,
     content |-> [i \in 1 .. Len(addrs) |-> PdaSqlite(addrs[i], p)]]

\* scenarios A and B: files with the addresses {1,2} and {2,3}; the first
\* may be inside the quiescence window, the second may be unreadable
RunDirectories ==
    {[f \in FileId |->
        IF f = 1 THEN RunFile("blob", y, TRUE, <<1, 2>>, ProgramOf(1))
        ELSE RunFile(k, FALSE, v, IF v THEN <<2, 3>> ELSE <<>>, ProgramOf(f))] :
        y \in BOOLEAN, k \in {"blob", "sqlite"}, v \in BOOLEAN}

\* no checkpoint yet, a checkpoint holding address 2, and one that was to
\* hold two addresses and was cut short after the first
RunCheckpoints == {NoFile, FileOf(Serialize({2})), FileOf(<<2, 1>>)}

\* what the remote answers with in a run
RunStatuses ==
    {ImportStatus(TRUE, None, Some(TextComplete), None),
     ImportStatus(TRUE, None, Some(TextActive), None),
     ImportStatus(TRUE, None, Some(TextFailed), None),
     ImportStatus(FALSE, Some(Sentinel), None, None)}

InitRun ==
    /\ dir \in RunDirectories
    /\ ckptFile \in RunCheckpoints
    /\ tmpFile = NoFile
    /\ MergeIdle
    /\ UploadIdle
    /\ SaveIdle
    /\ RunIdle
    /\ MainIdle
    /\ SeedsIdle
    /\ ScriptIdle
    /\ kv \in {"blue", "green", "purple"}
    /\ configured \in BOOLEAN
    /\ configured = FALSE => kv = "blue"
    /\ db = [c \in Color |-> LoadDedupHashset(ckptFile)]
    /\ voc = RunStatuses
    /\ budget = 0

NextRun ==
    \/ RunStep
    \/ Crash
    \/ MergeStep
    \/ UploadStep
    \/ SaveStep
    \/ \E f \in FileId : FileAges(f)

SpecRun == InitRun /\ [][NextRun]_vars



(***************************************************************************)
(* Claims about merge, checked under SpecMerge.                            *)
(***************************************************************************)
\* the files merge has to read: blobs out of the quiescence window, and
\* sqlite files
Eligible(d) ==
    {f \in DOMAIN d : \/ d[f].kind = "blob" /\ ~d[f].young
                      \/ d[f].kind = "sqlite"}

SourceAddrs(d) == UNION {AddrsOf(d[f].content) : f \in Eligible(d)}

RECURSIVE SumLen(_, _)
SumLen(d, F) ==
    IF F = {} THEN 0
    ELSE LET f == CHOOSE x \in F : TRUE
         IN  Len(d[f].content) + SumLen(d, F \ {f})

\* C1: the records merge returns as new hold each address at most once, and
\* no address of the checkpoint set loaded at the start of the merge.
C1_SetCorrectness ==
    mpc = "ok" =>
        /\ \A i, j \in 1 .. Len(mres.entries) :
              i # j => mres.entries[i].pda # mres.entries[j].pda
        /\ \A i \in 1 .. Len(mres.entries) :
              mres.entries[i].pda \notin dedup_hashset

\* a merge that collapsed an in-batch duplicate, dropped a checkpointed
\* address and still returned a record
C1_Witness ==
    /\ mpc = "ok"
    /\ mres.vec_deduped > 0
    /\ mres.hashset_deduped > 0
    /\ mres.entries # <<>>

\* C2: the addresses merge returns are exactly the addresses of the eligible
\* source files minus the checkpoint set at start, and the in-batch duplicate
\* count is the accumulated records minus the distinct addresses.
C2_ExactUnion ==
    mpc = "ok" =>
        /\ AddrsOf(mres.entries) = SourceAddrs(dir) \ dedup_hashset
        /\ mres.vec_deduped
              = SumLen(dir, Eligible(dir)) - Cardinality(SourceAddrs(dir))

\* scenario A: blobs {A,B} and {B,C}, empty checkpoint, result {A,B,C} with
\* one in-batch duplicate removed
C2_Witness ==
    /\ mpc = "ok"
    /\ Eligible(dir) = {1, 2}
    /\ AddrsOf(dir[1].content) = {1, 2}
    /\ AddrsOf(dir[2].content) = {2, 3}
    /\ dedup_hashset = {}
    /\ AddrsOf(mres.entries) = {1, 2, 3}
    /\ mres.vec_deduped = 1

(***************************************************************************)
(* Claims about runs, checked under SpecRun.                               *)
(***************************************************************************)
\* the run got as far as uploading, and every chunk is confirmed by the
\* inactive database
InactiveDone == ev.chunks >= 0 /\ ev.inactiveOk = ev.chunks
\* the pointer is flipped and every chunk is confirmed by the secondary
\* database
SecondaryDone == ev.chunks >= 0 /\ ev.flips = 1 /\ ev.secondaryOk = ev.chunks

\* C3: a merge that follows a run which completed and persisted its
\* checkpoint, over a directory whose eligible files are all files that run
\* parsed, returns zero new records.
C3_Idempotence ==
    (/\ rpc = "merge"
     /\ mpc = "ok"
     /\ prev.done
     /\ Eligible(dir) \subseteq prev.files) => mres.entries = <<>>

\* the second run reads the files the first run read, drops every record of
\* theirs against the checkpoint and returns nothing
C3_Witness ==
    /\ rpc = "merge"
    /\ mpc = "ok"
    /\ prev.done
    /\ prev.files # {}
    /\ Eligible(dir) = prev.files
    /\ mres.hashset_deduped > 0
    /\ mres.entries = <<>>

\* C3 as stated: whenever a second run follows a completed one on the same
\* directory (no file is ever added to it), its merge returns zero records.
C3_AsStated ==
    (rpc = "merge" /\ mpc = "ok" /\ prev.done) => mres.entries = <<>>

\* C4: from the moment every chunk is confirmed by the inactive database
\* until every chunk is confirmed by the secondary one, whether the run goes
\* on, fails or is terminated, the checkpoint file is the file the run
\* started with; a run that uploads changes the file only after both.
C4_DurabilityOrdering ==
    /\ (InactiveDone /\ ~SecondaryDone) => ckptFile = ev.start
    /\ (ev.chunks >= 0 /\ ckptFile # ev.start)
          => (InactiveDone /\ SecondaryDone)

\* a run terminated after the flip, with one of two chunks in the secondary
\* database
C4_Witness ==
    /\ rpc = "crashed"
    /\ InactiveDone
    /\ ev.flips = 1
    /\ ev.secondaryOk = 1
    /\ ev.chunks = 2
    /\ ckptFile = ev.start
    /\ ev.start.exists

\* C5: the pointer is written only once every chunk is in the inactive
\* database, at most once in a run; an upload to the secondary database
\* begins only after the write; the checkpoint is touched only after every
\* upload of both phases; and after a failed upload to the inactive database
\* the pointer and the checkpoint are as the run found them.
C5_UploadOrdering ==
    /\ ev.flips <= 1
    /\ ev.flips = 1 =>
          (InactiveDone /\ ~ev.inactiveFailed
           /\ ev.batch \subseteq db[Other(ev.kv0)])
    /\ (runs > 0 /\ kv # ev.kv0) => ev.flips = 1
    /\ ev.secondaryBegun > 0 => (ev.flips = 1 /\ kv = Other(ev.kv0))
    /\ (rpc = "inactive" /\ upc # "idle") => (ev.flips = 0 /\ kv = ev.kv0)
    /\ (ev.saveBegun /\ configured) =>
          (InactiveDone /\ SecondaryDone /\ upc = "idle"
           /\ \A c \in Color : ev.batch \subseteq db[c])
    /\ (runs > 0 /\ ckptFile # ev.start) => ev.saveBegun
    /\ ev.inactiveFailed =>
          (ev.flips = 0 /\ kv = ev.kv0 /\ ~ev.saveBegun /\ ckptFile = ev.start)

\* after a run that went through the whole sequence, a run whose second
\* chunk upload to the inactive database failed
C5_Witness ==
    /\ rpc = "failed"
    /\ prev.done
    /\ ev.inactiveFailed
    /\ configured
    /\ kv = ev.kv0
    /\ ev.batch # {}

\* C6: a run that found the pointer at "blue" and got every chunk confirmed
\* by both databases ends with the pointer at "green", written once, and
\* with every address of the batch in the blue and in the green database.
C6_ScenarioF ==
    (/\ rpc \in {"done", "failed"}
     /\ configured
     /\ ev.saveBegun
     /\ ev.kv0 = "blue") =>
        /\ kv = "green"
        /\ ev.flips = 1
        /\ ev.batch \subseteq db["blue"]
        /\ ev.batch \subseteq db["green"]

\* scenario F with the batch {1,2,3}
C6_Witness ==
    /\ rpc = "done"
    /\ configured
    /\ ev.kv0 = "blue"
    /\ kv = "green"
    /\ ev.batch = {1, 2, 3}
    /\ db["blue"] = {1, 2, 3}
    /\ db["green"] = {1, 2, 3}

\* C7: at every point of save_dedup_hashset, from its call to its return,
\* the destination path holds the complete checkpoint that was there before
\* the call or the complete serialization of the set being saved.
C7_AtomicReplace ==
    spc # "idle" =>
        (ckptFile = ev.start \/ ckptFile = FileOf(Serialize(saveSet)))

\* C8: the addresses in the checkpoint file after a run that returned are a
\* superset of the addresses in the file before the run.
C8_OnlyGrows ==
    rpc = "done" => AddrsIn(ev.start) \subseteq AddrsIn(ckptFile)

(***************************************************************************)
(* Claims about one upload, checked under SpecUpload.                      *)
(***************************************************************************)
\* C9: after a staging response whose ETag is missing or, its quotes
\* stripped, is not the checksum of the script, the upload has returned an
\* error and sent no ingest and no poll request; an ingest request was sent
\* only after a staging response whose ETag is the checksum.
C9_EtagGate ==
    /\ (/\ trace.putSeen
        /\ \/ trace.etag = None
           \/ TrimQuotes(trace.etag[1])
                 # Checksum(BuildInsertScript(uentries)[1]))
          => (upc = "err" /\ reqs.ingest = 0 /\ reqs.poll = 0)
    /\ reqs.ingest > 0 =>
          /\ trace.putSeen
          /\ trace.putOk
          /\ trace.etag # None
          /\ TrimQuotes(trace.etag[1]) = Checksum(BuildInsertScript(uentries)[1])

\* scenario D: the staging response carried the tag of another script
C9_Witness ==
    /\ upc = "err"
    /\ uerr = "etag_mismatch"
    /\ trace.putOk
    /\ trace.etag = Some(<<QuoteChar>> \o WrongSum \o <<QuoteChar>>)
    /\ reqs.ingest = 0
    /\ reqs.poll = 0

\* C10: after an init response that carried an import status, no staging and
\* no ingest request is sent; a status that is not final leads straight to
\* polling, and the first poll request carries the bookmark of that status.
C10_StatusShortcut ==
    trace.initShape = "status" =>
        /\ reqs.put = 0
        /\ reqs.ingest = 0
        /\ ~trace.putSeen
        /\ (reqs.poll = 0 /\ Evaluate(status) = "continue") => upc = "poll"
        /\ reqs.poll = 1 => trace.pollBm = trace.initBm

\* scenario C: the first poll went out with the bookmark of the init status
C10_Witness ==
    /\ trace.initShape = "status"
    /\ trace.initBm = Some("b1")
    /\ reqs.poll = 1
    /\ trace.pollBm = Some("b1")
    /\ reqs.put = 0

\* C11: a poll response whose envelope succeeded and whose import status
\* carries the error text "Not currently importing anything." ends the import
\* in success, whatever the success flag, the status text and the bookmark of
\* that status.
C11_SentinelIsSuccess ==
    (/\ trace.last = "poll"
     /\ trace.kind = "envelope"
     /\ trace.success
     /\ trace.st # None
     /\ trace.st[1].error = Some(Sentinel)) => upc = "ok"

\* scenario E, with a status text that spells failure and a bookmark
C11_Witness ==
    /\ trace.last = "poll"
    /\ trace.kind = "envelope"
    /\ trace.success
    /\ trace.st = Some(ImportStatus(FALSE, Some(Sentinel), Some(TextFailed),
                                    Some("b1")))
    /\ upc = "ok"

\* C11 as stated: a poll response carrying success=false and the sentinel
\* error text ends the import in success whatever its other fields are.
C11_AsStated ==
    (/\ trace.last = "poll"
     /\ trace.st # None
     /\ ~trace.st[1].success
     /\ trace.st[1].error = Some(Sentinel)) => upc = "ok"

\* C12: the timeout error is returned only once MAX_ATTEMPTS poll requests
\* have been sent, and never more than MAX_ATTEMPTS are sent.
C12_TimeoutAtCap ==
    /\ reqs.poll <= MAX_ATTEMPTS
    /\ uerr = "timeout" => reqs.poll >= MAX_ATTEMPTS

\* the polling loop has looked at the status of the last response
Looked ==
    /\ trace.last \in {"init", "ingest", "poll"}
    /\ trace.kind = "envelope"
    /\ trace.success
    /\ trace.st # None

\* C13: a status the polling loop has looked at whose text contains "fail"
\* or "error" in any letter case, or whose success flag is false, has ended
\* the import in failure, unless it carries the sentinel error text.
C13_FailureIsTerminal ==
    (/\ Looked
     /\ trace.st[1].error # Some(Sentinel)
     /\ \/ ~trace.st[1].success
        \/ /\ trace.st[1].status # None
           /\ \/ Contains(ToAsciiLowercase(trace.st[1].status[1]), TextFail)
              \/ Contains(ToAsciiLowercase(trace.st[1].status[1]), TextError))
        => (upc = "err" /\ uerr = "import")

\* C14: after a non-success HTTP status on any of the four calls the upload
\* has returned the error; no kind of request but poll is ever sent twice,
\* and the requests sent are those up to the failed call.
C14_HttpErrorAborts ==
    /\ reqs.init <= 1 /\ reqs.put <= 1 /\ reqs.ingest <= 1
    /\ (trace.last \in {"init", "ingest", "poll"} /\ trace.kind = "http_error")
          => (upc = "err" /\ uerr = "http")
    /\ (trace.last = "put" /\ ~trace.putOk) => (upc = "err" /\ uerr = "http")
    /\ (trace.last = "init" /\ upc = "err") =>
          reqs = [init |-> 1, put |-> 0, ingest |-> 0, poll |-> 0]
    /\ (trace.last = "put" /\ upc = "err") =>
          reqs = [init |-> 1, put |-> 1, ingest |-> 0, poll |-> 0]
    /\ (trace.last = "ingest" /\ upc = "err") =>
          reqs = [init |-> 1, put |-> 1, ingest |-> 1, poll |-> 0]

\* a poll answered by a non-success HTTP status whose body is an envelope
\* that reports a complete import
C14_Witness ==
    /\ trace.last = "poll"
    /\ trace.kind = "http_error"
    /\ trace.st = Some(StatusComplete)
    /\ upc = "err"
    /\ uerr = "http"
    /\ reqs.poll = 2

\* C15: an init, ingest or poll response whose envelope has success=false
\* has ended the upload in an error whatever payload it carries, and an
\* envelope with success=true and no result has ended it in an error too.
C15_EnvelopeFailure ==
    /\ (/\ trace.last \in {"init", "ingest", "poll"}
        /\ trace.kind = "envelope"
        /\ ~trace.success) => (upc = "err" /\ uerr = "envelope")
    /\ (/\ trace.last \in {"init", "ingest", "poll"}
        /\ trace.kind = "envelope"
        /\ trace.success
        /\ ~trace.present) => (upc = "err" /\ uerr = "payload")

\* an ingest response with success=false and a status that reads complete
C15_Witness ==
    /\ trace.last = "ingest"
    /\ trace.kind = "envelope"
    /\ ~trace.success
    /\ trace.st # None
    /\ trace.st[1].status = Some(TextComplete)
    /\ upc = "err"

(***************************************************************************)
(* The merge command of main.rs, run once on a directory.                  *)
(***************************************************************************)
InitMain ==
    /\ dir \in Directories
    /\ ckptFile \in {NoFile, FileOf(Serialize({2}))}
    /\ tmpFile = NoFile
    /\ MergeIdle
    /\ UploadIdle
    /\ SaveIdle
    /\ RunIdle
    /\ SeedsIdle
    /\ ScriptIdle
    /\ db = [c \in Color |-> {}]
    /\ voc = {}
    /\ budget = 0
    /\ kv = "blue"
    /\ configured = TRUE
    /\ cpc = "call"
    /\ files = <<>>
    /\ ftask = [f \in FileId |-> "none"]
    /\ rw_entries = <<>>
    /\ num_files_dealt = 0
    /\ output = {}
    /\ removed = 0

NextMain ==
    \/ MainStep
    \/ \E f \in FileId : FileAges(f)

SpecMain == InitMain /\ [][NextMain]_vars

(***************************************************************************)
(* decode_seeds_from_storage, run once on a byte string.                   *)
(***************************************************************************)
\* longest byte string that is not taken from an encoding
MaxBlob == 9
\* most seeds of an encoded list, and most bytes of one of its seeds
MaxSeeds == 2
MaxSeedLen == 2

SeedByte == 0 .. 1

SeedLists == SeqsUpTo(SeqsUpTo(SeedByte, MaxSeedLen), MaxSeeds)

InitSeeds ==
    /\ dir = EmptyDir
    /\ ckptFile = NoFile
    /\ tmpFile = NoFile
    /\ MergeIdle
    /\ UploadIdle
    /\ SaveIdle
    /\ RunIdle
    /\ MainIdle
    /\ ScriptIdle
    /\ db = [c \in Color |-> {}]
    /\ voc = {}
    /\ budget = 0
    /\ kv = "blue"
    /\ configured = TRUE
    /\ dpc = "call"
    /\ cursor = 0
    /\ seeds = <<>>
    /\ num_seeds = 0
    /\ iter = 0
    /\ \/ /\ seeds_raw \in SeqsUpTo(SeedByte, MaxBlob)
          /\ original = None
       \/ \E ss \in SeedLists :
             \E n \in 0 .. Len(encode_seeds_for_storage(ss)) :
                /\ seeds_raw = SubSeq(encode_seeds_for_storage(ss), 1, n)
                /\ original = Some(ss)

NextSeeds == DecodeStep

SpecSeeds == InitSeeds /\ [][NextSeeds]_vars

(***************************************************************************)
(* The script of a batch, built twice.                                     *)
(***************************************************************************)
\* most statements of a script
MaxChunks == 2

\* records with and without seeds
SeededRecords ==
    {[PdaSqlite(a, p) EXCEPT !.seeds = ss] :
        a \in Address, p \in ProgramId, ss \in {<<>>, <<<<1>>, <<>>>>}}

\* a batch of n records
LongBatch(n) == [i \in 1 .. n |-> PdaSqlite(((i - 1) % 3) + 1, 1)]

\* short batches of any records, and batches that fill their last statement,
\* miss one record to fill it, or start another statement with one record
ScriptBatches ==
    SeqsUpTo(SeededRecords, MaxRecs)
    \cup {LongBatch(k * CHUNK_SIZE + d) : k \in 1 .. MaxChunks, d \in {-1, 0, 1}}

InitScript ==
    /\ dir = EmptyDir
    /\ ckptFile = NoFile
    /\ tmpFile = NoFile
    /\ MergeIdle
    /\ UploadIdle
    /\ SaveIdle
    /\ RunIdle
    /\ MainIdle
    /\ SeedsIdle
    /\ db = [c \in Color |-> {}]
    /\ voc = {}
    /\ budget = 0
    /\ kv = "blue"
    /\ configured = TRUE
    /\ bpc = "call"
    /\ sentries \in ScriptBatches
    /\ built = <<>>
    /\ sums = <<>>

NextScript == ScriptBuild

SpecScript == InitScript /\ [][NextScript]_vars

(***************************************************************************)
(* More claims about merge, checked under SpecMerge.                       *)
(***************************************************************************)
\* C18: with no checkpoint file, or with one that opens and does not decode,
\* merge starts from the empty set: it fails only on a source file, and when
\* it succeeds it returns every distinct source address once.  Loading the
\* checkpoint makes merge fail only when the file exists and cannot be opened.
C18_CheckpointLoad ==
    /\ mres.error = "checkpoint" => (ckptFile.exists /\ ~OpenOk(ckptFile))
    /\ (/\ mpc \in {"ok", "err"}
        /\ \/ ~ckptFile.exists
           \/ OpenOk(ckptFile) /\ ~DecodeOk(ckptFile.bytes)) =>
           /\ mpc = "err" =>
                 (mres.error = "parse" /\ mres.failed \in Eligible(dir))
           /\ mpc = "ok" =>
                 /\ dedup_hashset = {}
                 /\ mres.dedup_hashset = {}
                 /\ AddrsOf(mres.entries) = SourceAddrs(dir)
                 /\ Len(mres.entries) = Cardinality(SourceAddrs(dir))

\* a checkpoint cut short after its first entry, and a merge that returned
\* the address of that entry as new
C18_Witness ==
    /\ mpc = "ok"
    /\ ckptFile = FileOf(<<2, 1>>)
    /\ 1 \in AddrsOf(mres.entries)
    /\ dedup_hashset = {}

\* C18 as stated: loading the checkpoint never makes merge fail.
C18_AsStated == mres.error # "checkpoint"

RECURSIVE InFileOrder(_, _)
\* the contents of the listed files, one file after the other
InFileOrder(d, fs) ==
    IF fs = <<>> THEN <<>>
    ELSE d[Head(fs)].content \o InFileOrder(d, Tail(fs))

\* C20: the records merge returns are those it returns when the parse tasks
\* append in the order of the file lists, whatever order they appended in.
C20_ScheduleIndependent ==
    mpc = "ok" =>
        mres.entries =
            MergeResult(InFileOrder(dir, blob_files \o sqlite_files),
                        blob_files, dedup_hashset).entries

(***************************************************************************)
(* Claims about the merge command, checked under SpecMain.                 *)
(***************************************************************************)
\* C16: a source file that does not parse ends merge with a returned error
\* and no records written, never with a panic.
C16_ParseFailureIsAnError ==
    (\E f \in FileId : ftask[f] = "panicked") =>
        (cpc \in {"parse", "err"} /\ output = {})

\* C17: no step of merge removes a source file or changes the checkpoint
\* file.
C17_FileSystemUnchanged ==
    [][/\ \A f \in FileId : dir[f].kind # "gone" => dir'[f].kind # "gone"
       /\ ckptFile' = ckptFile]_vars

(***************************************************************************)
(* Claims about the seeds column, checked under SpecSeeds.                 *)
(***************************************************************************)
IsPrefix(s, t) == Len(s) <= Len(t) /\ s = SubSeq(t, 1, Len(s))

\* C19: decoding never reads beyond the end of the byte string, and the
\* decoding of an encoding cut short is a prefix of the encoded seed list.
C19_TruncationSafe ==
    /\ dpc # "panic"
    /\ cursor <= Len(seeds_raw)
    /\ (dpc = "done" /\ original # None) => IsPrefix(seeds, original[1])

\* an encoding of two seeds, cut inside the second, decoded to the first
C19_Witness ==
    /\ dpc = "done"
    /\ original # None
    /\ Len(original[1]) = 2
    /\ Len(seeds_raw) < Len(encode_seeds_for_storage(original[1]))
    /\ seeds = SubSeq(original[1], 1, 1)
    /\ Len(seeds[1]) = 2

(***************************************************************************)
(* Claims about what merge returns and about its parse tasks, checked      *)
(* under SpecMerge.                                                        *)
(***************************************************************************)
\* C22: the file list merge returns holds every eligible blob file and every
\* sqlite file, and the set it returns is the checkpoint set as loaded.
C22_FilesConsidered ==
    mpc = "ok" =>
        /\ Range(mres.blob_files) = Eligible(dir)
        /\ mres.dedup_hashset = LoadDedupHashset(ckptFile)

CountIn(es, r) == Cardinality({i \in 1 .. Len(es) : es[i] = r})

\* C24: the lock is held only by a task whose parse has returned, and once
\* every task has finished the accumulator holds each record as often as the
\* parsed files do together.
C24_NoLostAppend ==
    /\ lock # 0 => tpc[lock] = "locked"
    /\ \A f \in FileId :
          tpc[f] = "locked" => (lock = f /\ parsed[f] = dir[f].content)
    /\ mpc \in {"dedup", "ok"} =>
          \A r \in Range(entries)
                 \cup Range(InFileOrder(dir, blob_files \o sqlite_files)) :
             CountIn(entries, r) =
                 CountIn(InFileOrder(dir, blob_files \o sqlite_files), r)

\* two files with records, the second appended before the first
C24_Witness ==
    /\ mpc = "ok"
    /\ Len(blob_files) + Len(sqlite_files) = 2
    /\ dir[1].content # <<>>
    /\ dir[2].content # <<>>
    /\ entries = dir[2].content \o dir[1].content

WellFormedScript(es, script) ==
    IF es = <<>> THEN script = None
    ELSE /\ script # None
         /\ Len(script[1]) = (Len(es) + CHUNK_SIZE - 1) \div CHUNK_SIZE
         /\ \A k \in 1 .. Len(script[1]) :
               /\ Len(script[1][k]) >= 1
               /\ Len(script[1][k]) <= CHUNK_SIZE
               /\ \A i \in 1 .. Len(script[1][k]) :
                     script[1][k][i].end =
                         IF i = Len(script[1][k]) THEN ";" ELSE ","
         /\ Len(Flatten(script[1])) = Len(es)
         /\ \A j \in 1 .. Len(es) :
               LET row == Flatten(script[1])[j]
               IN  /\ row.pda = ToBlobLiteral(es[j].pda)
                   /\ row.program = ToBlobLiteral(es[j].program_id)
                   /\ row.seed_count = Len(es[j].seeds)
                   /\ row.seed = ToBlobLiteral(BincodeSeeds(es[j].seeds))

\* C25: no script for no entries; else one statement per CHUNK_SIZE entries
\* begun, each of 1 to CHUNK_SIZE rows, the rows being the entries in their
\* order, the last row of a statement ended by ";" and the others by ",".
C25_ScriptShape ==
    \A b \in 1 .. Len(built) : WellFormedScript(sentries, built[b])

\* a script of three statements, the last of one row
C25_Witness ==
    /\ Len(built) >= 1
    /\ built[1] # None
    /\ Len(built[1][1]) = 3
    /\ Len(built[1][1][1]) = CHUNK_SIZE
    /\ Len(built[1][1][3]) = 1

(***************************************************************************)
(* More claims about upload_to_d1.                                         *)
(***************************************************************************)
\* C23: a call whose requests are all answered ends, in success or in an
\* error, and sends fewer than MAX_ATTEMPTS poll requests on the way.
C23_PollTerminates ==
    /\ [](reqs.poll < MAX_ATTEMPTS)
    /\ <>(upc \in {"ok", "err"})

\* the remote stayed "active" until the cap ended the call
C23_Witness ==
    /\ upc = "err"
    /\ uerr = "timeout"
    /\ reqs.poll = MAX_ATTEMPTS - 1
    /\ budget = 0

\* C26: a poll request carries the bookmark of the import status received
\* last before it.
C26_LastSeenBookmark ==
    [][reqs'.poll = reqs.poll + 1 =>
          (trace.st # None /\ trace'.pollBm = trace.st[1].at_bookmark)]_vars

\* init answered a status without a bookmark, the first poll a status with
\* one, and the second poll carried it
C26_Witness ==
    /\ trace.initShape = "status"
    /\ trace.initBm = None
    /\ reqs.poll = 2
    /\ trace.pollBm = Some("b1")

\* C28: a call with no entries ends in success without a request sent, and
\* leaves the remote databases as they were.
C28_EmptyBatchIsSilent ==
    uentries = <<>> =>
        /\ upc \in {"idle", "call", "ok"}
        /\ upc = "ok" => uerr = "none"
        /\ reqs = NoReqs
        /\ trace = NoTrace
        /\ db = [c \in Color |-> {}]

C28_Witness ==
    /\ uentries = <<>>
    /\ upc = "ok"
    /\ reqs = NoReqs
    /\ budget = UploadPatience

(***************************************************************************)
(* One more claim about the seeds column, checked under SpecSeeds.         *)
(***************************************************************************)
\* C27: the decoding of the whole encoding of a seed list is that list.
C27_RoundTrip ==
    (/\ dpc = "done"
     /\ original # None
     /\ seeds_raw = encode_seeds_for_storage(original[1])) =>
        seeds = original[1]

\* two seeds, the first empty, come back in their order
C27_Witness ==
    /\ dpc = "done"
    /\ original = Some(<<<<>>, <<1, 0>>>>)
    /\ seeds_raw = encode_seeds_for_storage(original[1])
    /\ seeds = <<<<>>, <<1, 0>>>>

====
